---- MODULE Spec2Model ----
(***************************************************************************)
(* The harpoon bookmark store of helix-term                                *)
(* (helix-term/src/commands/typed/harpoon.rs): a per-working-directory     *)
(* table from a user-chosen index to a file path plus selection spans,     *)
(* kept in one JSON backing file that every command loads in full and,     *)
(* when it mutates, writes back in full.                                   *)
(***************************************************************************)
EXTENDS FiniteSets, Integers, Sequences, TLC

VARIABLES
    harpoon_store_file, \* Option<content>: the backing file on disk
    fs,                 \* the document paths that exist on the filesystem
    last,               \* the last step: the inputs a command read and what it produced
    codec,              \* the selection codec exercised on its own (SpecCodec)
    jobs,               \* the popup jobs list() has scheduled and the event loop has not run
    procs               \* two editors sharing the backing file (SpecRace)

vars == <<harpoon_store_file, fs, last, codec, jobs, procs>>

-----------------------------------------------------------------------------
(* Bounds of the selection domain.                                         *)

MaxOff == 2
MaxRanges == 2

-----------------------------------------------------------------------------
(* Option<T>: None is the empty sequence, Some(x) the one-element one.     *)

None == <<>>
Some(x) == <<x>>
IsSome(o) == o # None
Unwrap(o) == o[1]

(* HashMap<K, V> as a function; insert and remove as in std.               *)
EmptyMap == [k \in {} |-> None]
MapInsert(m, k, v) == [x \in DOMAIN m \cup {k} |-> IF x = k THEN v ELSE m[x]]
MapRemove(m, k) == [x \in DOMAIN m \ {k} |-> m[x]]
MapGet(m, k) == IF k \in DOMAIN m THEN Some(m[k]) ELSE None

-----------------------------------------------------------------------------
(* Paths are sequences of components; an absolute path starts with "/".    *)

RootA == <<"/", "A">>
RootB == <<"/", "B">>
Cwds == {RootA, RootB}
DocPaths == {RootA \o <<"a.txt">>, RootB \o <<"a.txt">>}
(* The document that is deleted from and written back to the filesystem.   *)
Deletable == {RootB \o <<"a.txt">>}

IsAbsolute(path) == Len(path) > 0 /\ path[1] = "/"
StartsWith(path, base) ==
    Len(base) <= Len(path) /\ SubSeq(path, 1, Len(base)) = base

(* helix_stdx::path::get_relative_path: relative to the working directory  *)
(* when the path lies inside it, unchanged otherwise.                      *)
get_relative_path(cwd, path) ==
    IF IsAbsolute(path) /\ StartsWith(path, cwd)
    THEN SubSeq(path, Len(cwd) + 1, Len(path))
    ELSE path

(* A relative path is resolved against the working directory of the process. *)
Resolve(cwd, path) == IF IsAbsolute(path) THEN path ELSE cwd \o path

(* Path::exists *)
exists(files, cwd, path) == Resolve(cwd, path) \in files

-----------------------------------------------------------------------------
(* Decimal text of a usize and str::parse::<usize>.                        *)

Digits == <<"0", "1", "2", "3", "4", "5", "6", "7", "8", "9">>
DigitChars == {Digits[d] : d \in 1..10}
DigitOf == [c \in DigitChars |-> (CHOOSE d \in 1..10 : Digits[d] = c) - 1]
IsDigit(c) == c \in DigitChars
DigitVal(c) == DigitOf[c]

RECURSIVE to_string(_)
to_string(n) ==
    IF n < 10 THEN <<Digits[n + 1]>>
    ELSE to_string(n \div 10) \o <<Digits[(n % 10) + 1]>>

RECURSIVE DigitsValue(_)
DigitsValue(s) ==
    IF Len(s) = 0 THEN 0
    ELSE 10 * DigitsValue(SubSeq(s, 1, Len(s) - 1)) + DigitVal(s[Len(s)])

(* parse::<usize>: an optional leading "+", then one or more digits.       *)
parse_usize(s) ==
    LET body == IF Len(s) > 0 /\ s[1] = "+" THEN Tail(s) ELSE s
    IN  IF Len(body) > 0 /\ \A k \in 1..Len(body) : IsDigit(body[k])
        THEN Some(DigitsValue(body))
        ELSE None

(* The argument texts the commands are run with, and the indices they     *)
(* denote; the decimal text of each index and its parse, tabulated.        *)
ArgStrings == {<<"2">>, <<"1", "0">>, <<"2", "x">>}
IndexValues == {Unwrap(parse_usize(a)) : a \in {x \in ArgStrings : parse_usize(x) # None}}
DecimalText == [n \in IndexValues |-> to_string(n)]
ParsedKey == [k \in {DecimalText[n] : n \in IndexValues} |-> Unwrap(parse_usize(k))]

ErrNotProvided == "index not provided"
ErrNotInteger == "index must be an integer"
ErrNoPath == "current document has no path"
Ok == "Ok"

(* index taking the leading digits of the argument, as atoi does.          *)
index_leading_digits(arg) ==
    IF arg = None THEN [err |-> ErrNotProvided, value |-> 0]
    ELSE LET a == Unwrap(arg)
             n == Cardinality({k \in 1..Len(a) : \A j \in 1..k : IsDigit(a[j])})
         IN  IF n = 0 THEN [err |-> ErrNotInteger, value |-> 0]
             ELSE [err |-> Ok, value |-> DigitsValue(SubSeq(a, 1, n))]

(* fn index(arg): Result<usize>, as [err, value].                          *)
index(arg) ==
    IF arg = None THEN [err |-> ErrNotProvided, value |-> 0]
    ELSE LET parsed == parse_usize(Unwrap(arg))
         IN  IF parsed = None THEN [err |-> ErrNotInteger, value |-> 0]
             ELSE [err |-> Ok, value |-> Unwrap(parsed)]

-----------------------------------------------------------------------------
(* Selections and the selection codec.                                     *)

Range(anchor, head) == [anchor |-> anchor, head |-> head]
Span(start, end) == [start |-> start, end |-> end]

(* Selection::new(ranges, primary_index) *)
SelectionNew(ranges, primary_index) ==
    [ranges |-> ranges, primary_index |-> primary_index]

SpansOf(selection) ==
    [k \in 1..Len(selection.ranges) |->
        Span(selection.ranges[k].anchor, selection.ranges[k].head)]

(* new storing the lower and upper end of each range (from, to) instead of *)
(* its anchor and head.                                                    *)
new_from_to(path, selection) ==
    [path |-> path,
     spans |-> [k \in 1..Len(selection.ranges) |->
        LET r == selection.ranges[k]
        IN  Span(IF r.anchor <= r.head THEN r.anchor ELSE r.head,
                 IF r.anchor <= r.head THEN r.head ELSE r.anchor)]]

(* File::new *)
new(path, selection) == [path |-> path, spans |-> SpansOf(selection)]

(* update_selection appending the spans of the selection to the old ones.  *)
update_selection_appends(f, selection) ==
    [f EXCEPT !.spans = f.spans \o SpansOf(selection)]

(* update_selection leaving out the first range of the selection.          *)
update_selection_tail(f, selection) ==
    [f EXCEPT !.spans = Tail(SpansOf(selection))]

(* File::update_selection *)
update_selection(f, selection) == [f EXCEPT !.spans = SpansOf(selection)]

(* as_selection rebuilding only the first span.                            *)
as_selection_first_span(f) ==
    SelectionNew(<<Range(f.spans[1].start, f.spans[1].end)>>, 0)

(* File::as_selection *)
as_selection(f) ==
    SelectionNew([k \in 1..Len(f.spans) |-> Range(f.spans[k].start, f.spans[k].end)], 0)

-----------------------------------------------------------------------------
(* The store: Store { projects: HashMap<PathBuf, Project> },               *)
(* Project { files: HashMap<usize, File> }.                                *)

StoreDefault == [projects |-> EmptyMap]
ProjectDefault == [files |-> EmptyMap]

(* serde_json::to_string(&Store): the keys of `files` become decimal text. *)
SerializeFiles(files) ==
    [k \in {DecimalText[i] : i \in DOMAIN files} |->
        files[CHOOSE i \in DOMAIN files : DecimalText[i] = k]]

Serialize(store) ==
    [projects |-> [c \in DOMAIN store.projects |->
        [files |-> SerializeFiles(store.projects[c].files)]]]

(* serde_json::from_str: the keys of `files` are parsed back to integers.  *)
DeserializeFiles(entries) ==
    [i \in {ParsedKey[k] : k \in DOMAIN entries} |->
        entries[CHOOSE k \in DOMAIN entries : ParsedKey[k] = i]]

Deserialize(content) ==
    [projects |-> [c \in DOMAIN content.projects |->
        [files |-> DeserializeFiles(content.projects[c].files)]]]

(* A backing file that is no JSON of a Store, and one that cannot be read. *)
Malformed == [malformed |-> TRUE]
Unreadable == [unreadable |-> TRUE]
WellFormed(content) == "projects" \in DOMAIN content

ErrDeserialize == "deserialize error"
ErrAccess == "cannot access harpoon store file"

(* open treating an absent backing file as any other read error.           *)
open_absent_fails(backing) ==
    IF backing = None \/ Unwrap(backing) = Unreadable
    THEN [err |-> ErrAccess, store |-> StoreDefault]
    ELSE IF ~WellFormed(Unwrap(backing)) THEN [err |-> ErrDeserialize, store |-> StoreDefault]
    ELSE [err |-> Ok, store |-> Deserialize(Unwrap(backing))]

(* open recovering from a damaged backing file with the default store.     *)
open_recovers(backing) ==
    IF backing = None \/ ~WellFormed(Unwrap(backing))
    THEN [err |-> Ok, store |-> StoreDefault]
    ELSE [err |-> Ok, store |-> Deserialize(Unwrap(backing))]

(* Store::open: Result<Store>, as [err, store]. An absent backing file is  *)
(* the default (empty) store.                                              *)
open(backing) ==
    IF backing = None THEN [err |-> Ok, store |-> StoreDefault]
    ELSE IF Unwrap(backing) = Unreadable THEN [err |-> ErrAccess, store |-> StoreDefault]
    ELSE IF ~WellFormed(Unwrap(backing)) THEN [err |-> ErrDeserialize, store |-> StoreDefault]
    ELSE [err |-> Ok, store |-> Deserialize(Unwrap(backing))]

(* Store::save: the whole store replaces the backing file.                 *)
save(store) == Some(Serialize(store))

(* Store::project: entry(cwd).or_default(); the store after the upsert.    *)
project(store, cwd) ==
    IF cwd \in DOMAIN store.projects THEN store
    ELSE [projects |-> MapInsert(store.projects, cwd, ProjectDefault)]

(* set_file keeping a File that is already at the index.                   *)
set_file_keeps(store, cwd, i, f) ==
    LET s == project(store, cwd)
    IN  IF i \in DOMAIN s.projects[cwd].files THEN s
        ELSE [projects |-> [s.projects EXCEPT ![cwd] =
                [files |-> MapInsert(s.projects[cwd].files, i, f)]]]

(* set_file inserting into the table of every project of the store.        *)
set_file_everywhere(store, cwd, i, f) ==
    LET s == project(store, cwd)
    IN  [projects |-> [c \in DOMAIN s.projects |->
            [files |-> MapInsert(s.projects[c].files, i, f)]]]

(* set_file leaving the new File alone in the table of the project.        *)
set_file_alone(store, cwd, i, f) ==
    LET s == project(store, cwd)
    IN  [projects |-> [s.projects EXCEPT ![cwd] = [files |-> MapInsert(EmptyMap, i, f)]]]

(* Store::set_file *)
set_file(store, cwd, i, f) ==
    LET s == project(store, cwd)
    IN  [projects |-> [s.projects EXCEPT ![cwd] =
            [files |-> MapInsert(s.projects[cwd].files, i, f)]]]

(* remove_file clearing the whole table of the project.                    *)
remove_file_clears(store, cwd, i) ==
    LET s == project(store, cwd)
    IN  [store |-> [projects |-> [s.projects EXCEPT ![cwd] = ProjectDefault]],
         removed |-> MapGet(s.projects[cwd].files, i)]

(* Store::remove_file: the store afterwards, and the removed File.         *)
remove_file(store, cwd, i) ==
    LET s == project(store, cwd)
    IN  [store |-> [projects |-> [s.projects EXCEPT ![cwd] =
                        [files |-> MapRemove(s.projects[cwd].files, i)]]],
         removed |-> MapGet(s.projects[cwd].files, i)]

(* file without the filter on Path::exists.                                *)
file_unfiltered(store, files, cwd, i) ==
    MapGet(project(store, cwd).projects[cwd].files, i)

(* Store::file: the File at the index, filtered by Path::exists.           *)
file(store, files, cwd, i) ==
    LET s == project(store, cwd)
        found == MapGet(s.projects[cwd].files, i)
    IN  IF IsSome(found) /\ exists(files, cwd, Unwrap(found).path)
        THEN found ELSE None

-----------------------------------------------------------------------------
(* The values the host hands to a command.                                 *)

Events == {"Validate", "Update"}
Args == {None} \cup {Some(a) : a \in ArgStrings}
Docs == {None} \cup {Some(p) : p \in DocPaths}

(* Selections of the editor keep their ranges in document order and        *)
(* pairwise disjoint; any of the ranges may be the primary one.            *)
From(r) == IF r.anchor <= r.head THEN r.anchor ELSE r.head
To(r) == IF r.anchor <= r.head THEN r.head ELSE r.anchor
Overlaps(a, b) == From(a) = From(b) \/ (To(a) > From(b) /\ To(b) > From(a))
Offsets == 0..MaxOff
Ranges == {Range(a, h) : a \in Offsets, h \in Offsets}
RangeSeqs == UNION {[1..n -> Ranges] : n \in 1..MaxRanges}
IsNormalized(rs) ==
    \A k \in 1..(Len(rs) - 1) :
        From(rs[k]) < From(rs[k + 1]) /\ ~Overlaps(rs[k], rs[k + 1])
Selections ==
    {SelectionNew(rs, p) : rs \in {x \in RangeSeqs : IsNormalized(x)},
                           p \in 0..(MaxRanges - 1)}
        \ {s \in [ranges : RangeSeqs, primary_index : 0..(MaxRanges - 1)] :
                s.primary_index >= Len(s.ranges)}

(* The selections the commands are run with.                               *)
HostSelections ==
    {SelectionNew(<<Range(1, 0)>>, 0),
     SelectionNew(<<Range(0, 1), Range(3, 2)>>, 1)}

-----------------------------------------------------------------------------
(* What a command leaves behind: the inputs it read before it returned,    *)
(* its Result, the status line it set, the File an insert replaced, the     *)
(* document and selection of the view it changed, the text it rendered.    *)

Blank(op, event) ==
    [op |-> op, event |-> event, cwd |-> None, arg |-> None, index |-> None,
     doc |-> None, selection |-> None, result |-> Ok, status |-> None,
     replaced |-> None, view |-> None, contents |-> None]

StatusAdded(path, i) ==
    Some([kind |-> "status", text |-> <<"'", path, "' added to #", DecimalText[i]>>])
StatusRemoved(path, i) ==
    Some([kind |-> "status", text |-> <<"'", path, "' removed from #", DecimalText[i]>>])
ErrorNotAssigned(i) ==
    Some([kind |-> "error", text |-> <<"No file assigned to #", DecimalText[i]>>])

CodecIdle == [pc |-> "idle", selection |-> None, file |-> None, out |-> None]

(* The two editors of SpecRace, neither inside a command: the command each *)
(* runs or has run, the store it holds in memory, whether the backing file *)
(* is still what the command opened, and whether its save was the last.    *)
Procs == {"p1", "p2"}
ProcIdle == [pc |-> "idle", op |-> "", cwd |-> None, index |-> None, doc |-> None,
             selection |-> None, store |-> StoreDefault, fresh |-> FALSE, latest |-> FALSE]
ProcsIdle == [p \in Procs |-> ProcIdle]

Init ==
    /\ harpoon_store_file = None
    /\ fs = DocPaths
    /\ last = Blank("init", "")
    /\ codec = CodecIdle
    /\ jobs = <<>>
    /\ procs = ProcsIdle

-----------------------------------------------------------------------------
(* pub fn set *)
set(event, cwd, arg, doc, selection) ==
    /\ UNCHANGED <<fs, codec, jobs, procs>>
    /\ IF event # "Validate"
       THEN /\ last' = Blank("set", event)
            /\ UNCHANGED harpoon_store_file
       ELSE LET idx == index(arg)
                opened == open(harpoon_store_file)
            IN  IF idx.err # Ok
                THEN /\ last' = [Blank("set", event) EXCEPT
                                    !.arg = arg, !.result = idx.err]
                     /\ UNCHANGED harpoon_store_file
                ELSE IF doc = None
                THEN /\ last' = [Blank("set", event) EXCEPT
                                    !.arg = arg, !.index = Some(idx.value),
                                    !.result = ErrNoPath]
                     /\ UNCHANGED harpoon_store_file
                ELSE IF opened.err # Ok
                THEN /\ last' = [Blank("set", event) EXCEPT
                                    !.arg = arg, !.index = Some(idx.value),
                                    !.cwd = Some(cwd), !.doc = doc,
                                    !.result = opened.err]
                     /\ UNCHANGED harpoon_store_file
                ELSE LET path == get_relative_path(cwd, Unwrap(doc))
                         store == set_file(opened.store, cwd, idx.value,
                                           new(path, selection))
                     IN  /\ harpoon_store_file' = save(store)
                         /\ last' = [Blank("set", event) EXCEPT
                                        !.arg = arg, !.index = Some(idx.value),
                                        !.cwd = Some(cwd), !.doc = doc,
                                        !.selection = Some(selection),
                                        !.replaced =
                                            MapGet(project(opened.store, cwd)
                                                        .projects[cwd].files, idx.value),
                                        !.status = StatusAdded(path, idx.value)]

(* get without the gate on the event: it runs on every event.              *)
get_ungated(event, cwd, arg) ==
    /\ UNCHANGED <<harpoon_store_file, fs, codec, jobs, procs>>
    /\ LET idx == index(arg)
           opened == open(harpoon_store_file)
       IN  IF idx.err # Ok
           THEN last' = [Blank("get", event) EXCEPT !.arg = arg, !.result = idx.err]
           ELSE IF opened.err # Ok
           THEN last' = [Blank("get", event) EXCEPT
                            !.arg = arg, !.index = Some(idx.value),
                            !.result = opened.err]
           ELSE LET found == file(opened.store, fs, cwd, idx.value)
                IN  last' = [Blank("get", event) EXCEPT
                                !.arg = arg, !.index = Some(idx.value),
                                !.cwd = Some(cwd),
                                !.view =
                                   IF found = None THEN None
                                   ELSE Some([doc |-> Resolve(cwd, Unwrap(found).path),
                                              selection |-> as_selection(Unwrap(found))])]

(* pub fn get *)
get(event, cwd, arg) ==
    /\ UNCHANGED <<harpoon_store_file, fs, codec, jobs, procs>>
    /\ IF event # "Validate"
       THEN last' = Blank("get", event)
       ELSE LET idx == index(arg)
                opened == open(harpoon_store_file)
            IN  IF idx.err # Ok
                THEN last' = [Blank("get", event) EXCEPT
                                 !.arg = arg, !.result = idx.err]
                ELSE IF opened.err # Ok
                THEN last' = [Blank("get", event) EXCEPT
                                 !.arg = arg, !.index = Some(idx.value),
                                 !.result = opened.err]
                ELSE LET found == file(opened.store, fs, cwd, idx.value)
                     IN  last' = [Blank("get", event) EXCEPT
                                     !.arg = arg, !.index = Some(idx.value),
                                     !.cwd = Some(cwd),
                                     !.view =
                                        IF found = None THEN None
                                        ELSE Some([doc |-> Resolve(cwd, Unwrap(found).path),
                                                   selection |-> as_selection(Unwrap(found))])]

(* pub fn remove *)
remove(event, cwd, arg) ==
    /\ UNCHANGED <<fs, codec, jobs, procs>>
    /\ IF event # "Validate"
       THEN /\ last' = Blank("remove", event)
            /\ UNCHANGED harpoon_store_file
       ELSE LET idx == index(arg)
                opened == open(harpoon_store_file)
            IN  IF idx.err # Ok
                THEN /\ last' = [Blank("remove", event) EXCEPT
                                    !.arg = arg, !.result = idx.err]
                     /\ UNCHANGED harpoon_store_file
                ELSE IF opened.err # Ok
                THEN /\ last' = [Blank("remove", event) EXCEPT
                                    !.arg = arg, !.index = Some(idx.value),
                                    !.result = opened.err]
                     /\ UNCHANGED harpoon_store_file
                ELSE LET r == remove_file(opened.store, cwd, idx.value)
                     IN  IF IsSome(r.removed)
                         THEN /\ harpoon_store_file' = save(r.store)
                              /\ last' = [Blank("remove", event) EXCEPT
                                             !.arg = arg, !.index = Some(idx.value),
                                             !.cwd = Some(cwd),
                                             !.status = StatusRemoved(Unwrap(r.removed).path,
                                                                      idx.value)]
                         ELSE /\ UNCHANGED harpoon_store_file
                              /\ last' = [Blank("remove", event) EXCEPT
                                             !.arg = arg, !.index = Some(idx.value),
                                             !.cwd = Some(cwd),
                                             !.status = ErrorNotAssigned(idx.value)]

(* values_mut().find(|file| file.path == path): the indices of the Files   *)
(* the search may return. It visits the HashMap in an order that differs   *)
(* from one map to the next (RandomState), so it is any File with the path. *)
find(files, path) == {i \in DOMAIN files : files[i].path = path}

(* update looking the Records up by the path of the document as the host   *)
(* gives it, without get_relative_path.                                    *)
update_raw_path(event, cwd, doc, selection) ==
    /\ UNCHANGED <<fs, codec, jobs, procs>>
    /\ IF event # "Validate"
       THEN /\ last' = Blank("update", event)
            /\ UNCHANGED harpoon_store_file
       ELSE IF doc = None
       THEN /\ last' = [Blank("update", event) EXCEPT !.result = Ok]
            /\ UNCHANGED harpoon_store_file
       ELSE IF open(harpoon_store_file).err # Ok
       THEN /\ last' = [Blank("update", event) EXCEPT
                           !.doc = doc, !.result = open(harpoon_store_file).err]
            /\ UNCHANGED harpoon_store_file
       ELSE LET path == Unwrap(doc)
                store == project(open(harpoon_store_file).store, cwd)
                files == store.projects[cwd].files
                matching == find(files, path)
            IN  IF matching = {}
                THEN /\ harpoon_store_file' = save(store)
                     /\ last' = [Blank("update", event) EXCEPT
                                    !.cwd = Some(cwd), !.doc = doc]
                ELSE \E i \in matching :
                        /\ harpoon_store_file' =
                              save([projects |-> [store.projects EXCEPT ![cwd] =
                                    [files |-> [files EXCEPT ![i] =
                                        update_selection(files[i], selection)]]]])
                        /\ last' = [Blank("update", event) EXCEPT
                                       !.cwd = Some(cwd), !.doc = doc,
                                       !.selection = Some(selection)]

(* pub fn update: values_mut().find() visits the HashMap in an arbitrary   *)
(* order, so any File with the path may be the one found.                  *)
update(event, cwd, doc, selection) ==
    /\ UNCHANGED <<fs, codec, jobs, procs>>
    /\ IF event # "Validate"
       THEN /\ last' = Blank("update", event)
            /\ UNCHANGED harpoon_store_file
       ELSE IF doc = None
       THEN /\ last' = [Blank("update", event) EXCEPT !.result = Ok]
            /\ UNCHANGED harpoon_store_file
       ELSE IF open(harpoon_store_file).err # Ok
       THEN /\ last' = [Blank("update", event) EXCEPT
                           !.doc = doc, !.result = open(harpoon_store_file).err]
            /\ UNCHANGED harpoon_store_file
       ELSE LET path == get_relative_path(cwd, Unwrap(doc))
                store == project(open(harpoon_store_file).store, cwd)
                files == store.projects[cwd].files
                matching == find(files, path)
            IN  IF matching = {}
                THEN /\ harpoon_store_file' = save(store)
                     /\ last' = [Blank("update", event) EXCEPT
                                    !.cwd = Some(cwd), !.doc = doc]
                ELSE \E i \in matching :
                        /\ harpoon_store_file' =
                              save([projects |-> [store.projects EXCEPT ![cwd] =
                                    [files |-> [files EXCEPT ![i] =
                                        update_selection(files[i], selection)]]]])
                        /\ last' = [Blank("update", event) EXCEPT
                                       !.cwd = Some(cwd), !.doc = doc,
                                       !.selection = Some(selection)]

(* sort_by with the comparison reversed (b.cmp(a)).                        *)
RECURSIVE sort_by_reversed(_)
sort_by_reversed(indices) ==
    IF indices = {} THEN <<>>
    ELSE LET greatest == CHOOSE i \in indices : \A j \in indices : i >= j
         IN  <<greatest>> \o sort_by_reversed(indices \ {greatest})

(* files.sort_by(|(a, _), (b, _)| a.cmp(b)): the indices in ascending order. *)
RECURSIVE sort_by(_)
sort_by(indices) ==
    IF indices = {} THEN <<>>
    ELSE LET least == CHOOSE i \in indices : \A j \in indices : i <= j
         IN  <<least>> \o sort_by(indices \ {least})

(* writeln!(output, "{}. {}", index, path) *)
Line(i, path) == [index |-> DecimalText[i], sep |-> ". ", path |-> path]

(* The text list() folds from the current project's table.                 *)
Contents(store, cwd) ==
    LET files == project(store, cwd).projects[cwd].files
        order == sort_by(DOMAIN files)
    IN  [k \in 1..Len(order) |-> Line(order[k], files[order[k]].path)]

(* cx.jobs.callback: the job joins the queue of the event loop.            *)
callback(queue, contents) == Append(queue, contents)

(* list rendering the text and scheduling no job.                          *)
list_unscheduled(event, cwd) ==
    /\ UNCHANGED <<harpoon_store_file, fs, codec, jobs, procs>>
    /\ IF event # "Validate"
       THEN last' = Blank("list", event)
       ELSE IF open(harpoon_store_file).err # Ok
       THEN last' = [Blank("list", event) EXCEPT
                        !.result = open(harpoon_store_file).err]
       ELSE last' = [Blank("list", event) EXCEPT
                        !.cwd = Some(cwd),
                        !.contents = Some(Contents(open(harpoon_store_file).store, cwd))]

(* list saving the store it has opened, the project's entry included.      *)
list_saves(event, cwd) ==
    /\ UNCHANGED <<fs, codec, procs>>
    /\ IF event # "Validate"
       THEN /\ last' = Blank("list", event)
            /\ UNCHANGED <<harpoon_store_file, jobs>>
       ELSE IF open(harpoon_store_file).err # Ok
       THEN /\ last' = [Blank("list", event) EXCEPT
                           !.result = open(harpoon_store_file).err]
            /\ UNCHANGED <<harpoon_store_file, jobs>>
       ELSE LET contents == Contents(open(harpoon_store_file).store, cwd)
            IN  /\ last' = [Blank("list", event) EXCEPT
                               !.cwd = Some(cwd), !.contents = Some(contents)]
                /\ jobs' = callback(jobs, contents)
                /\ harpoon_store_file' = save(project(open(harpoon_store_file).store, cwd))

(* pub fn list *)
list(event, cwd) ==
    /\ UNCHANGED <<harpoon_store_file, fs, codec, procs>>
    /\ IF event # "Validate"
       THEN /\ last' = Blank("list", event)
            /\ UNCHANGED jobs
       ELSE IF open(harpoon_store_file).err # Ok
       THEN /\ last' = [Blank("list", event) EXCEPT
                           !.result = open(harpoon_store_file).err]
            /\ UNCHANGED jobs
       ELSE LET contents == Contents(open(harpoon_store_file).store, cwd)
            IN  /\ last' = [Blank("list", event) EXCEPT
                               !.cwd = Some(cwd), !.contents = Some(contents)]
                /\ jobs' = callback(jobs, contents)

(* The callback of the job, run by the event loop: the compositor shows a  *)
(* popup "harpoon" with the text the job carries.                          *)
EditorCompositor ==
    /\ jobs # <<>>
    /\ last' = [Blank("popup", "") EXCEPT !.contents = Some(Head(jobs))]
    /\ jobs' = Tail(jobs)
    /\ UNCHANGED <<harpoon_store_file, fs, codec, procs>>

(* Steps made outside the editor: a document is deleted or written.        *)
DeletePath(p) ==
    /\ p \in fs
    /\ fs' = fs \ {p}
    /\ last' = Blank("outside", "")
    /\ UNCHANGED <<harpoon_store_file, codec, jobs, procs>>

CreatePath(p) ==
    /\ p \notin fs
    /\ fs' = fs \cup {p}
    /\ last' = Blank("outside", "")
    /\ UNCHANGED <<harpoon_store_file, codec, jobs, procs>>

(* The backing file is damaged from outside the editor.                    *)
Damage(content) ==
    /\ harpoon_store_file # Some(content)
    /\ harpoon_store_file' = Some(content)
    /\ last' = Blank("outside", "")
    /\ UNCHANGED <<fs, codec, jobs, procs>>

(* The inputs of each command. An input the command returns without       *)
(* reading is drawn once: no event but Validate reads the working          *)
(* directory or the selection, a failed index stops before the document, a *)
(* document without a path before the working directory and the selection. *)
(* Every event comes with every argument and every document.               *)
(* A document of the project is edited under either working directory, a   *)
(* document outside the project under RootA.                               *)
NoCwd == RootA
Edited(cwd, doc) ==
    doc = None \/ StartsWith(Unwrap(doc), cwd) \/ cwd = RootA
NoSelection == SelectionNew(<<Range(1, 0)>>, 0)

SetInputs ==
    {in \in [event : Events, cwd : Cwds, arg : Args, doc : Docs,
             selection : HostSelections] :
        /\ in.event # "Validate" => in.cwd = NoCwd /\ in.selection = NoSelection
        /\ index(in.arg).err # Ok => in.doc = None
        /\ in.doc = None => in.cwd = NoCwd /\ in.selection = NoSelection
        /\ Edited(in.cwd, in.doc)}

IndexInputs ==
    {in \in [event : Events, cwd : Cwds, arg : Args] :
        /\ in.event # "Validate" => in.cwd = NoCwd
        /\ index(in.arg).err # Ok => in.cwd = NoCwd}

UpdateInputs ==
    {in \in [event : Events, cwd : Cwds, doc : Docs, selection : HostSelections] :
        /\ in.event # "Validate" => in.cwd = NoCwd /\ in.selection = NoSelection
        /\ in.doc = None => in.cwd = NoCwd /\ in.selection = NoSelection
        /\ Edited(in.cwd, in.doc)}

ListInputs ==
    {in \in [event : Events, cwd : Cwds] : in.event # "Validate" => in.cwd = NoCwd}

(* In Spec the event loop runs a scheduled popup job before it takes the   *)
(* next command; SpecPopup lets commands run while jobs are waiting.       *)
Idle == jobs = <<>>

Next ==
    \/ Idle /\ \E in \in SetInputs : set(in.event, in.cwd, in.arg, in.doc, in.selection)
    \/ Idle /\ \E in \in IndexInputs : get(in.event, in.cwd, in.arg)
    \/ Idle /\ \E in \in IndexInputs : remove(in.event, in.cwd, in.arg)
    \/ Idle /\ \E in \in UpdateInputs : update(in.event, in.cwd, in.doc, in.selection)
    \/ Idle /\ \E in \in ListInputs : list(in.event, in.cwd)
    \/ Idle /\ \E p \in Deletable : DeletePath(p)
    \/ Idle /\ \E p \in Deletable : CreatePath(p)
    \/ Idle /\ \E content \in {Malformed, Unreadable} : Damage(content)
    \/ EditorCompositor

Spec == Init /\ [][Next]_vars

-----------------------------------------------------------------------------
(* The selection codec on its own: a File is built from a selection and    *)
(* turned back into one.                                                   *)

InitCodec ==
    /\ harpoon_store_file = None
    /\ fs = DocPaths
    /\ last = Blank("init", "")
    /\ jobs = <<>>
    /\ procs = ProcsIdle
    /\ \E s \in Selections :
          codec = [pc |-> "input", selection |-> Some(s), file |-> None, out |-> None]

CodecNew ==
    /\ codec.pc = "input"
    /\ codec' = [codec EXCEPT !.pc = "built",
                              !.file = Some(new(<<"a.txt">>, Unwrap(codec.selection)))]
    /\ UNCHANGED <<harpoon_store_file, fs, last, jobs, procs>>

CodecAsSelection ==
    /\ codec.pc = "built"
    /\ codec' = [codec EXCEPT !.pc = "done",
                              !.out = Some(as_selection(Unwrap(codec.file)))]
    /\ UNCHANGED <<harpoon_store_file, fs, last, jobs, procs>>

NextCodec == CodecNew \/ CodecAsSelection

SpecCodec == InitCodec /\ [][NextCodec]_vars

-----------------------------------------------------------------------------
(* Two editors on one backing file. A command of an editor is two steps:   *)
(* Store::open and the change of the store in memory, then Store::save;    *)
(* the other editor may take steps in between. Commands are run on         *)
(* Validate with valid arguments, each editor on a document of its working *)
(* directory.                                                              *)

RaceDoc(cwd) == cwd \o <<"a.txt">>
RaceIndices(cwd) == IF cwd = RootA THEN IndexValues ELSE {2}
SetSelection == SelectionNew(<<Range(1, 0)>>, 0)
UpdateSelection == SelectionNew(<<Range(0, 1), Range(3, 2)>>, 1)

(* Editor p holds `store` in memory, opened from the backing file as it is *)
(* now and changed by the command.                                         *)
Opened(p, op, cwd, i, selection, store) ==
    /\ procs[p].pc = "idle"
    /\ procs' = [procs EXCEPT ![p] =
            [pc |-> "opened", op |-> op, cwd |-> Some(cwd), index |-> i,
             doc |-> Some(RaceDoc(cwd)), selection |-> selection, store |-> store,
             fresh |-> TRUE, latest |-> FALSE]]
    /\ UNCHANGED <<harpoon_store_file, fs, last, codec, jobs>>

(* set up to its save: Store::open, set_file.                              *)
RaceSet(p, cwd, i) ==
    /\ open(harpoon_store_file).err = Ok
    /\ Opened(p, "set", cwd, Some(i), Some(SetSelection),
              set_file(open(harpoon_store_file).store, cwd, i,
                       new(get_relative_path(cwd, RaceDoc(cwd)), SetSelection)))

(* remove up to its save: Store::open, remove_file; when no File is at the *)
(* index remove does not save.                                             *)
RaceRemove(p, cwd, i) ==
    /\ open(harpoon_store_file).err = Ok
    /\ LET r == remove_file(open(harpoon_store_file).store, cwd, i)
       IN  /\ IsSome(r.removed)
           /\ Opened(p, "remove", cwd, Some(i), None, r.store)

(* update up to its save: Store::open, project, find, update_selection.    *)
RaceUpdate(p, cwd) ==
    /\ open(harpoon_store_file).err = Ok
    /\ LET store == project(open(harpoon_store_file).store, cwd)
           files == store.projects[cwd].files
           matching == find(files, get_relative_path(cwd, RaceDoc(cwd)))
       IN  IF matching = {}
           THEN Opened(p, "update", cwd, None, Some(UpdateSelection), store)
           ELSE \E i \in matching :
                   Opened(p, "update", cwd, None, Some(UpdateSelection),
                          [projects |-> [store.projects EXCEPT ![cwd] =
                              [files |-> [files EXCEPT ![i] =
                                  update_selection(files[i], UpdateSelection)]]]])

(* A save that keeps from the backing file the projects of the other       *)
(* working directories and writes only the project of its own.             *)
RaceSave_merging(p) ==
    /\ procs[p].pc = "opened"
    /\ LET cwd == Unwrap(procs[p].cwd)
           disk == open(harpoon_store_file).store.projects
           mine == procs[p].store.projects
       IN  harpoon_store_file' =
              save([projects |-> [c \in DOMAIN disk \cup {cwd} |->
                        IF c = cwd THEN mine[c] ELSE disk[c]]])
    /\ procs' = [q \in Procs |->
            IF q = p
            THEN [ProcIdle EXCEPT !.op = procs[p].op, !.cwd = procs[p].cwd,
                                  !.index = procs[p].index, !.fresh = procs[p].fresh,
                                  !.latest = TRUE]
            ELSE [procs[q] EXCEPT !.fresh = FALSE, !.latest = FALSE]]
    /\ last' = Blank("save", "Validate")
    /\ UNCHANGED <<fs, codec, jobs>>

(* Store::save of editor p: the store it holds replaces the backing file;  *)
(* what the other editor opened is no longer what is on disk. The editor   *)
(* keeps the command it has run and whether the file was still what it had *)
(* opened.                                                                 *)
RaceSave(p) ==
    /\ procs[p].pc = "opened"
    /\ harpoon_store_file' = save(procs[p].store)
    /\ procs' = [q \in Procs |->
            IF q = p
            THEN [ProcIdle EXCEPT !.op = procs[p].op, !.cwd = procs[p].cwd,
                                  !.index = procs[p].index, !.fresh = procs[p].fresh,
                                  !.latest = TRUE]
            ELSE [procs[q] EXCEPT !.fresh = FALSE, !.latest = FALSE]]
    /\ last' = Blank("save", "Validate")
    /\ UNCHANGED <<fs, codec, jobs>>

NextRace ==
    \/ \E p \in Procs : \E cwd \in Cwds : \E i \in RaceIndices(cwd) : RaceSet(p, cwd, i)
    \/ \E p \in Procs : \E cwd \in Cwds : \E i \in RaceIndices(cwd) : RaceRemove(p, cwd, i)
    \/ \E p \in Procs : \E cwd \in Cwds : RaceUpdate(p, cwd)
    \/ \E p \in Procs : RaceSave(p)

SpecRace == Init /\ [][NextRace]_vars

-----------------------------------------------------------------------------
(* The popup jobs of list(): commands run while jobs wait in the queue of  *)
(* the event loop, which runs every job it holds. Commands are run on      *)
(* Validate with valid arguments.                                          *)

MaxJobs == 2

PopupSet(cwd, i) ==
    set("Validate", cwd, Some(DecimalText[i]), Some(RaceDoc(cwd)), SetSelection)
PopupRemove(cwd, i) == remove("Validate", cwd, Some(DecimalText[i]))
PopupList(cwd) == Len(jobs) < MaxJobs /\ list("Validate", cwd)

NextPopup ==
    \/ \E cwd \in Cwds : \E i \in IndexValues : PopupSet(cwd, i)
    \/ \E cwd \in Cwds : \E i \in IndexValues : PopupRemove(cwd, i)
    \/ \E cwd \in Cwds : PopupList(cwd)
    \/ EditorCompositor

SpecPopup == Init /\ [][NextPopup]_vars /\ WF_vars(EditorCompositor)

-----------------------------------------------------------------------------
(* Reading the backing file as it is on disk: projects keyed by working    *)
(* directory, Records keyed by the decimal text of their index.            *)

Readable(backing) == backing = None \/ WellFormed(Unwrap(backing))
Projects(backing) ==
    IF backing # None /\ WellFormed(Unwrap(backing)) THEN Unwrap(backing).projects
    ELSE EmptyMap
Table(backing, cwd) ==
    IF cwd \in DOMAIN Projects(backing) THEN Projects(backing)[cwd].files ELSE EmptyMap
RecordAt(backing, cwd, i) == MapGet(Table(backing, cwd), to_string(i))
KeysOf(backing, cwd, i) ==
    {k \in DOMAIN Table(backing, cwd) : parse_usize(k) = Some(i)}

(* The Record a set call is asked to store.                                *)
Asked(l) ==
    [path |-> get_relative_path(Unwrap(l.cwd), Unwrap(l.doc)),
     spans |-> [k \in 1..Len(Unwrap(l.selection).ranges) |->
                  [start |-> Unwrap(l.selection).ranges[k].anchor,
                   end |-> Unwrap(l.selection).ranges[k].head]]]

Ran(l, op) == l.op = op /\ l.event = "Validate"
SetOk(l) == Ran(l, "set") /\ l.result = Ok

(* A step of a command, not one made outside the editor or by its event    *)
(* loop.                                                                   *)
CommandStep == last'.op \notin {"init", "outside", "popup"}

(* C1: a successful set(i, B) on Validate, whatever index i held before   *)
(* (nothing, or the Record A of an earlier successful set(i, A)), leaves   *)
(* exactly one Record at i in the persisted table of the working           *)
(* directory, equal to B (normalized path and spans of B), and every other *)
(* index of that table holds what it held before the call.                 *)
C1_SetOverwrites ==
    [][(CommandStep /\ SetOk(last')) =>
        LET cwd == Unwrap(last'.cwd)
            i == Unwrap(last'.index)
        IN  /\ RecordAt(harpoon_store_file', cwd, i) = Some(Asked(last'))
            /\ Cardinality(KeysOf(harpoon_store_file', cwd, i)) = 1
            /\ \A j \in IndexValues \ {i} :
                  RecordAt(harpoon_store_file', cwd, j) = RecordAt(harpoon_store_file, cwd, j)
            /\ DOMAIN Table(harpoon_store_file', cwd) =
                  DOMAIN Table(harpoon_store_file, cwd) \cup {to_string(i)}]_vars

(* A second set on an index replaced a different Record, with another      *)
(* index of the table occupied.                                            *)
C1_Witness ==
    /\ SetOk(last)
    /\ IsSome(last.replaced)
    /\ Unwrap(last.replaced) # Asked(last)
    /\ Cardinality(DOMAIN Table(harpoon_store_file, Unwrap(last.cwd))) = 2

-----------------------------------------------------------------------------
(* What the view shows after get has opened the File `f` under `cwd`.      *)
Restored(cwd, f) ==
    [doc |-> Resolve(cwd, f.path),
     selection |-> [ranges |-> [k \in 1..Len(f.spans) |->
                                   [anchor |-> f.spans[k].start, head |-> f.spans[k].end]],
                    primary_index |-> 0]]

(* C2: project isolation. A command run under one working directory       *)
(* leaves the persisted Records of every other working directory as they   *)
(* were, and get(i) opens nothing or the Record at i of its own working    *)
(* directory, never the Record another project holds at i.                 *)
C2_ProjectIsolation ==
    [][CommandStep =>
        /\ \A other \in Cwds :
              last'.cwd # Some(other) =>
                 Table(harpoon_store_file', other) = Table(harpoon_store_file, other)
        /\ (Ran(last', "get") /\ IsSome(last'.view)) =>
              LET own == RecordAt(harpoon_store_file, Unwrap(last'.cwd), Unwrap(last'.index))
              IN  /\ IsSome(own)
                  /\ Unwrap(last'.view) = Restored(Unwrap(last'.cwd), Unwrap(own))]_vars

(* Both projects hold a Record at the same index with the same relative    *)
(* path and different spans, and get under RootB has restored RootB's own.  *)
C2_Witness ==
    \E i \in IndexValues :
        LET a == RecordAt(harpoon_store_file, RootA, i)
            b == RecordAt(harpoon_store_file, RootB, i)
        IN  /\ IsSome(a) /\ IsSome(b)
            /\ Unwrap(a).path = Unwrap(b).path
            /\ Unwrap(a).spans # Unwrap(b).spans
            /\ Ran(last, "get") /\ last.cwd = Some(RootB) /\ last.index = Some(i)
            /\ last.view = Some(Restored(RootB, Unwrap(b)))

(* The path of a Record of `cwd` is not on the filesystem.                 *)
Stale(files, cwd, f) == Resolve(cwd, f.path) \notin files

(* The text list() renders for a table as it is on disk: one line per key. *)
Shown(contents, i, path) ==
    \E k \in 1..Len(contents) :
        contents[k] = [index |-> to_string(i), sep |-> ". ", path |-> path]

(* C3: stale filtering. When the path of the Record at index i of the      *)
(* current project is not on the filesystem, get(i) opens no document and  *)
(* sets no selection, and the backing file still holds the Record at i;    *)
(* list() shows a line for every Record of the table, the stale ones too.  *)
C3_StaleFiltering ==
    [][CommandStep =>
        /\ (Ran(last', "get") /\ IsSome(last'.cwd)) =>
              LET cwd == Unwrap(last'.cwd)
                  at == RecordAt(harpoon_store_file, cwd, Unwrap(last'.index))
              IN  (IsSome(at) /\ Stale(fs, cwd, Unwrap(at))) =>
                      /\ last'.view = None
                      /\ last'.result = Ok
                      /\ harpoon_store_file' = harpoon_store_file
        /\ (Ran(last', "list") /\ IsSome(last'.cwd)) =>
              \A i \in IndexValues :
                  LET at == RecordAt(harpoon_store_file, Unwrap(last'.cwd), i)
                  IN  IsSome(at) => Shown(Unwrap(last'.contents), i, Unwrap(at).path)]_vars

(* get(i) has run on a Record whose path is gone and has opened nothing.   *)
C3_Witness ==
    /\ Ran(last, "get") /\ IsSome(last.cwd)
    /\ LET at == RecordAt(harpoon_store_file, Unwrap(last.cwd), Unwrap(last.index))
       IN  IsSome(at) /\ Stale(fs, Unwrap(last.cwd), Unwrap(at))
    /\ last.view = None

(* The arguments of the last command are valid: an index that parses for   *)
(* set, get and remove, and a document with a path for set.                *)
ValidArguments(l) ==
    /\ l.event = "Validate"
    /\ l.op \in {"set", "get", "remove"} =>
          IsSome(l.arg) /\ IsSome(parse_usize(Unwrap(l.arg)))
    /\ l.op = "set" => IsSome(l.doc)

NoRecords(backing) ==
    \A c \in DOMAIN Projects(backing) : DOMAIN Projects(backing)[c].files = {}

(* C4: missing-file bootstrap. With no backing file, every command with    *)
(* valid arguments on Validate returns Ok and behaves as on an empty       *)
(* store: get opens nothing, list renders the empty text, remove reports   *)
(* not-found, update changes no Record, none of get, list and remove       *)
(* creates the file; a successful set creates it, holding the Record at    *)
(* its index under the current project.                                    *)
C4_MissingFileBootstrap ==
    [][(CommandStep /\ harpoon_store_file = None /\ ValidArguments(last')) =>
        /\ last'.result = Ok
        /\ last'.op = "get" => last'.view = None /\ harpoon_store_file' = None
        /\ last'.op = "list" => last'.contents = Some(<<>>) /\ harpoon_store_file' = None
        /\ last'.op = "remove" =>
              /\ IsSome(last'.status) /\ Unwrap(last'.status).kind = "error"
              /\ harpoon_store_file' = None
        /\ last'.op = "update" => NoRecords(harpoon_store_file')
        /\ last'.op = "set" =>
              /\ harpoon_store_file' # None
              /\ RecordAt(harpoon_store_file', Unwrap(last'.cwd), Unwrap(last'.index))
                    = Some(Asked(last'))]_vars

(* list() has run with no backing file and rendered the empty text.        *)
C4_Witness ==
    /\ harpoon_store_file = None
    /\ Ran(last, "list")
    /\ last.contents = Some(<<>>)

-----------------------------------------------------------------------------
(* An argument text that is no decimal number.                             *)
NonNumeric(a) ==
    \/ \A k \in 1..Len(a) : a[k] \notin DigitChars
    \/ \E k \in 1..Len(a) : a[k] \notin DigitChars \cup {"+", "-"}

(* C5: on Validate, set, get and remove fail with "index must be an        *)
(* integer" on a non-numeric index argument and with "index not provided"  *)
(* on no argument, set with a valid index fails with "current document has *)
(* no path" on a document without a path, and in each of these cases the   *)
(* backing file is left as it was (absent if it was absent).               *)
C5_ArgumentErrors ==
    [][(CommandStep /\ last'.event = "Validate"
            /\ last'.op \in {"set", "get", "remove"}) =>
        /\ (IsSome(last'.arg) /\ NonNumeric(Unwrap(last'.arg))) =>
              last'.result = ErrNotInteger /\ harpoon_store_file' = harpoon_store_file
        /\ last'.arg = None =>
              last'.result = ErrNotProvided /\ harpoon_store_file' = harpoon_store_file
        /\ (last'.op = "set" /\ IsSome(last'.arg) /\ ~NonNumeric(Unwrap(last'.arg))
                /\ last'.doc = None) =>
              last'.result = ErrNoPath /\ harpoon_store_file' = harpoon_store_file]_vars

(* set has failed on a document without a path, and no backing file exists. *)
C5_Witness ==
    /\ Ran(last, "set")
    /\ last.result = ErrNoPath
    /\ harpoon_store_file = None

(* Every Record of every project but the one at index i of `cwd` is in     *)
(* `after` what it is in `before`.                                         *)
OthersUnchanged(before, after, cwd, i) ==
    /\ \A c \in Cwds \ {cwd} : Table(after, c) = Table(before, c)
    /\ DOMAIN Projects(before) \ {cwd} = DOMAIN Projects(after) \ {cwd}
    /\ \A j \in IndexValues \ {i} : RecordAt(after, cwd, j) = RecordAt(before, cwd, j)

(* C6: remove(i) on Validate. When the persisted table of the current      *)
(* project holds a Record at i, stale or not, afterwards it holds none at  *)
(* i, every other Record of every project is unchanged and the project's   *)
(* entry is still in the file; when it holds none, a not-found error       *)
(* status is set, the call returns Ok and the backing file is not written. *)
C6_Remove ==
    [][(CommandStep /\ Ran(last', "remove") /\ IsSome(last'.cwd)) =>
        LET cwd == Unwrap(last'.cwd)
            i == Unwrap(last'.index)
        IN  IF IsSome(RecordAt(harpoon_store_file, cwd, i))
            THEN /\ RecordAt(harpoon_store_file', cwd, i) = None
                 /\ KeysOf(harpoon_store_file', cwd, i) = {}
                 /\ OthersUnchanged(harpoon_store_file, harpoon_store_file', cwd, i)
                 /\ cwd \in DOMAIN Projects(harpoon_store_file')
                 /\ last'.result = Ok
            ELSE /\ last'.status = ErrorNotAssigned(i)
                 /\ last'.result = Ok
                 /\ harpoon_store_file' = harpoon_store_file]_vars

(* remove has taken one of two Records of a project, a stale one, and the  *)
(* other Record is still there.                                            *)
C6_Witness ==
    /\ Ran(last, "remove") /\ IsSome(last.status)
    /\ Unwrap(last.status).kind = "status"
    /\ Unwrap(last.status).text[2] = RootB \o <<"a.txt">>
    /\ RootB \o <<"a.txt">> \notin fs
    /\ Cardinality(DOMAIN Table(harpoon_store_file, Unwrap(last.cwd))) = 1

(* C7: update() on Validate with a document whose normalized path is the   *)
(* path of no Record of the current project leaves the backing file        *)
(* exactly as it was (not created, no project entry added) and returns Ok. *)
C7_UpdateWithoutMatchWritesNothing ==
    [][(CommandStep /\ Ran(last', "update") /\ IsSome(last'.doc) /\ IsSome(last'.cwd)) =>
        LET cwd == Unwrap(last'.cwd)
            path == get_relative_path(cwd, Unwrap(last'.doc))
            table == Table(harpoon_store_file, cwd)
        IN  (\A k \in DOMAIN table : table[k].path # path) =>
                /\ harpoon_store_file' = harpoon_store_file
                /\ last'.result = Ok]_vars

(* The numeric value of the index a line starts with.                      *)
LineIndex(line) == DigitsValue(line.index)

(* C8: list() on Validate renders exactly one line "{index}. {path}" per  *)
(* Record of the current project's persisted table, stale Records          *)
(* included and no Record of another project, in strictly ascending order  *)
(* of index.                                                               *)
C8_ListSorted ==
    [][(CommandStep /\ Ran(last', "list") /\ IsSome(last'.cwd)) =>
        LET table == Table(harpoon_store_file, Unwrap(last'.cwd))
            contents == Unwrap(last'.contents)
        IN  /\ Len(contents) = Cardinality(DOMAIN table)
            /\ \A k \in DOMAIN table :
                  \E n \in 1..Len(contents) :
                      contents[n] = [index |-> k, sep |-> ". ", path |-> table[k].path]
            /\ \A m, n \in 1..Len(contents) :
                  m < n => LineIndex(contents[m]) < LineIndex(contents[n])]_vars

(* list() has rendered two lines, one of a stale Record, while the other   *)
(* project holds Records too.                                              *)
C8_Witness ==
    /\ Ran(last, "list") /\ IsSome(last.contents)
    /\ Len(Unwrap(last.contents)) = 2
    /\ \E n \in 1..2 : Stale(fs, Unwrap(last.cwd), Unwrap(last.contents)[n])
    /\ \E c \in Cwds \ {Unwrap(last.cwd)} : DOMAIN Table(harpoon_store_file, c) # {}

(* C9: round trip of the selection codec. For a Selection with N >= 1      *)
(* ranges, as_selection(File::new(path, selection)) has the same N ranges, *)
(* anchor and head each, in the same order, and primary-range index 0.     *)
C9_CodecRoundTrip ==
    codec.pc = "done" =>
        LET given == Unwrap(codec.selection)
            out == Unwrap(codec.out)
        IN  /\ Len(out.ranges) = Len(given.ranges)
            /\ \A k \in 1..Len(given.ranges) :
                  /\ out.ranges[k].anchor = given.ranges[k].anchor
                  /\ out.ranges[k].head = given.ranges[k].head
            /\ out.primary_index = 0

(* The round trip is done for a selection of two ranges, one of them       *)
(* backward (anchor after head), whose primary range is the second.        *)
C9_Witness ==
    /\ codec.pc = "done"
    /\ Len(Unwrap(codec.selection).ranges) = 2
    /\ Unwrap(codec.selection).primary_index = 1
    /\ \E k \in 1..2 :
          Unwrap(codec.selection).ranges[k].anchor > Unwrap(codec.selection).ranges[k].head

(* get(i) follows a successful set(i) of the same working directory.       *)
GetAfterSet ==
    /\ SetOk(last)
    /\ Ran(last', "get")
    /\ last'.cwd = last.cwd
    /\ last'.index = last.index

(* C10 as claimed: set(i) under selection S, then get(i) in the same       *)
(* working directory while the path exists, opens the bookmarked path and  *)
(* sets the selection of the view to S, primary range included.            *)
C10_GetRestoresSelectionExactly ==
    [][(GetAfterSet /\ Resolve(Unwrap(last.cwd), Unwrap(last.doc)) \in fs) =>
        last'.view = Some([doc |-> Unwrap(last.doc),
                           selection |-> Unwrap(last.selection)])]_vars

(* C10 as amended: set(i) under selection S, then get(i) in the same       *)
(* working directory while the path exists, opens the bookmarked path and  *)
(* sets the selection of the view to the ranges of S, anchor and head      *)
(* each, in the same order, with primary-range index 0 whichever range was *)
(* primary in S.                                                           *)
C10_GetRestoresRanges ==
    [][(GetAfterSet /\ Resolve(Unwrap(last.cwd), Unwrap(last.doc)) \in fs) =>
        /\ IsSome(last'.view)
        /\ Unwrap(last'.view).doc = Unwrap(last.doc)
        /\ Unwrap(last'.view).selection.ranges = Unwrap(last.selection).ranges
        /\ Unwrap(last'.view).selection.primary_index = 0]_vars

(* get has opened a document and restored a selection of two ranges.       *)
C10_Witness ==
    /\ Ran(last, "get") /\ IsSome(last.view)
    /\ Len(Unwrap(last.view).selection.ranges) = 2
    /\ Unwrap(last.view).selection.primary_index = 0

-----------------------------------------------------------------------------
(* The backing file exists and is malformed or cannot be read.             *)
Corrupt(backing) == backing # None /\ ~WellFormed(Unwrap(backing))

(* The last command reached Store::open: valid arguments, and for update a *)
(* document that has a path.                                               *)
OpensStore(l) == ValidArguments(l) /\ (l.op = "update" => IsSome(l.doc))

(* C11: when the backing file exists but is malformed or unreadable, every *)
(* call that opens the store (set, get, remove and list with valid         *)
(* arguments, update on a document with a path) fails with an error, does  *)
(* nothing else (no view, status or text) and leaves the backing file as   *)
(* it was; set does not overwrite it with a fresh store.                   *)
C11_CorruptFileFails ==
    [][(CommandStep /\ Corrupt(harpoon_store_file) /\ OpensStore(last')) =>
        /\ last'.result =
              (IF Unwrap(harpoon_store_file) = Unreadable THEN ErrAccess ELSE ErrDeserialize)
        /\ harpoon_store_file' = harpoon_store_file
        /\ last'.view = None
        /\ last'.status = None
        /\ last'.contents = None]_vars

(* set with a valid index on a document with a path has failed on a        *)
(* malformed backing file, which is still there.                           *)
C11_Witness ==
    /\ Ran(last, "set") /\ IsSome(last.index) /\ IsSome(last.doc)
    /\ last.result = ErrDeserialize
    /\ harpoon_store_file = Some(Malformed)

-----------------------------------------------------------------------------
(* C12: each of set, get, remove, update and list, run with an event other *)
(* than Validate, returns Ok and has no effect, whatever its argument      *)
(* (missing, non-numeric or a number) and its document: no argument error, *)
(* the backing file as it was (also when it is damaged, for it is not      *)
(* read), no document opened, no status set, no popup job scheduled.       *)
C12_OtherEventsAreNoOps ==
    [][(CommandStep /\ last'.event # "Validate") =>
        /\ last'.op \in {"set", "get", "remove", "update", "list"}
        /\ last' = Blank(last'.op, last'.event)
        /\ last'.result = Ok
        /\ last'.view = None /\ last'.status = None /\ last'.contents = None
        /\ harpoon_store_file' = harpoon_store_file
        /\ fs' = fs
        /\ jobs' = jobs]_vars

(* set has returned Ok on another event while the backing file is damaged. *)
C12_Witness ==
    /\ last.op = "set" /\ last.event = "Update"
    /\ last.result = Ok
    /\ harpoon_store_file = Some(Malformed)

-----------------------------------------------------------------------------
(* C13: get and list never write the backing file. After any get(i) or     *)
(* list() step, in any state (file absent, working directory not in the    *)
(* file, Record present, Record stale, index absent), the backing file is  *)
(* what it was before; the empty table Store::project inserts in memory    *)
(* for the working directory is not persisted.                             *)
C13_GetAndListDoNotWrite ==
    [][(CommandStep /\ last'.op \in {"get", "list"}) =>
        /\ harpoon_store_file' = harpoon_store_file
        /\ DOMAIN Projects(harpoon_store_file') = DOMAIN Projects(harpoon_store_file)]_vars

(* list() has run under a working directory the backing file, which holds  *)
(* another project, has no entry for.                                      *)
C13_Witness ==
    /\ Ran(last, "list") /\ IsSome(last.cwd)
    /\ DOMAIN Projects(harpoon_store_file) # {}
    /\ Unwrap(last.cwd) \notin DOMAIN Projects(harpoon_store_file)

-----------------------------------------------------------------------------
(* The keys of the persisted table of `cwd` whose Record has the path.     *)
Matching(backing, cwd, path) ==
    {k \in DOMAIN Table(backing, cwd) : Table(backing, cwd)[k].path = path}

(* The normalized path of the document of the last update or set.          *)
DocPath(l) == get_relative_path(Unwrap(l.cwd), Unwrap(l.doc))

(* Between `before` and `after` the Record at key k of `cwd` got the spans *)
(* and kept its path, and nothing else of the file changed.                *)
OnlySpansAt(before, after, cwd, k, spans) ==
    /\ DOMAIN Projects(after) = DOMAIN Projects(before)
    /\ \A c \in DOMAIN Projects(before) \ {cwd} : Projects(after)[c] = Projects(before)[c]
    /\ DOMAIN Table(after, cwd) = DOMAIN Table(before, cwd)
    /\ Table(after, cwd)[k] = [path |-> Table(before, cwd)[k].path, spans |-> spans]
    /\ \A j \in DOMAIN Table(before, cwd) \ {k} : Table(after, cwd)[j] = Table(before, cwd)[j]

(* C14: when update() on Validate finds a Record of the current project    *)
(* whose path is the normalized path of the active document, afterwards    *)
(* that Record is at the same index with the same path and its spans are   *)
(* the ranges of the current selection in order; the indices of the        *)
(* project are the same, and every other Record of this and of every other *)
(* project is unchanged.                                                   *)
C14_UpdateFrame ==
    [][(CommandStep /\ Ran(last', "update") /\ IsSome(last'.cwd)
            /\ Matching(harpoon_store_file, Unwrap(last'.cwd), DocPath(last')) # {}) =>
        /\ last'.result = Ok
        /\ IsSome(last'.selection)
        /\ \E k \in Matching(harpoon_store_file, Unwrap(last'.cwd), DocPath(last')) :
              OnlySpansAt(harpoon_store_file, harpoon_store_file', Unwrap(last'.cwd), k,
                          Asked(last').spans)]_vars

(* update() has given two spans to the one Record of the document, in a    *)
(* project that holds a Record of another document, while the other        *)
(* project holds a Record too.                                             *)
C14_Witness ==
    /\ Ran(last, "update") /\ IsSome(last.selection)
    /\ Len(Unwrap(last.selection).ranges) = 2
    /\ Cardinality(DOMAIN Table(harpoon_store_file, Unwrap(last.cwd))) = 2
    /\ Cardinality(Matching(harpoon_store_file, Unwrap(last.cwd), DocPath(last))) = 1
    /\ \E c \in Cwds \ {Unwrap(last.cwd)} : DOMAIN Table(harpoon_store_file, c) # {}

-----------------------------------------------------------------------------
(* update() on a document follows a successful set(i) on the same document *)
(* under the same working directory.                                       *)
UpdateAfterSet ==
    /\ SetOk(last)
    /\ Ran(last', "update")
    /\ last'.doc = last.doc
    /\ last'.cwd = last.cwd

(* Slot i of `cwd` holds in `backing` a Record with the path and the spans *)
(* of the selection.                                                       *)
SlotHolds(backing, cwd, i, path, selection) ==
    /\ IsSome(selection)
    /\ RecordAt(backing, cwd, i) = Some([path |-> path, spans |-> SpansOf(Unwrap(selection))])

(* C15 as claimed: after a successful set(i) on document path p under      *)
(* working directory C, an update() on p under C with selection S2 leaves  *)
(* slot i with the spans of S2, whatever other slots the project holds.    *)
C15_UpdateReachesSetSlot ==
    [][UpdateAfterSet =>
        SlotHolds(harpoon_store_file', Unwrap(last.cwd), Unwrap(last.index),
                  DocPath(last), last'.selection)]_vars

(* C15 as amended: after a successful set(i) on document path p under C,   *)
(* an update() on p under C with selection S2 leaves slot i with the spans *)
(* of S2 when no other slot of the project holds p; and any update() on p  *)
(* under C gives the spans of S2 to every slot that is the only one of the *)
(* project to hold the normalized p.                                       *)
C15_UpdateReachesOnlySlot ==
    [][/\ (UpdateAfterSet
             /\ Matching(harpoon_store_file, Unwrap(last.cwd), DocPath(last))
                   \subseteq {to_string(Unwrap(last.index))}) =>
            SlotHolds(harpoon_store_file', Unwrap(last.cwd), Unwrap(last.index),
                      DocPath(last), last'.selection)
       /\ (CommandStep /\ Ran(last', "update") /\ IsSome(last'.cwd)) =>
            \A i \in IndexValues :
                Matching(harpoon_store_file, Unwrap(last'.cwd), DocPath(last')) = {to_string(i)}
                    => SlotHolds(harpoon_store_file', Unwrap(last'.cwd), i,
                                 DocPath(last'), last'.selection)]_vars

(* update() has changed the spans of the one slot that holds the document, *)
(* stored under a path relative to the working directory.                  *)
C15_Witness ==
    /\ Ran(last, "update") /\ IsSome(last.selection)
    /\ DocPath(last) # Unwrap(last.doc)
    /\ \E i \in IndexValues :
          /\ Matching(harpoon_store_file, Unwrap(last.cwd), DocPath(last)) = {to_string(i)}
          /\ SlotHolds(harpoon_store_file, Unwrap(last.cwd), i, DocPath(last), last.selection)
    /\ Len(Unwrap(last.selection).ranges) = 2

-----------------------------------------------------------------------------
(* The last command may change the Record at index i of project `cwd`:     *)
(* set(i) or remove(i) under `cwd`, or update() under `cwd` on a document  *)
(* whose normalized path is the path of the Record `at`.                   *)
MayChange(l, cwd, i, at) ==
    /\ l.event = "Validate"
    /\ l.cwd = Some(cwd)
    /\ \/ l.op \in {"set", "remove"} /\ l.index = Some(i)
       \/ l.op = "update" /\ IsSome(at) /\ Unwrap(at).path = DocPath(l)

(* C16: the persisted Record at index i of project P changes only through  *)
(* set(i) or remove(i) run under P, or through an update() run under P     *)
(* whose document path is that Record's path, and update keeps the Record  *)
(* and its path. The filtering get does is never written back: a Record    *)
(* whose path is not on the filesystem stays in the backing file across    *)
(* get, list, update, and set and remove on other indices or projects.     *)
C16_RecordChangesOnlyByItsCommands ==
    [][CommandStep =>
        \A cwd \in Cwds :
            Table(harpoon_store_file', cwd) # Table(harpoon_store_file, cwd) =>
                \A i \in IndexValues :
                    LET at == RecordAt(harpoon_store_file, cwd, i)
                        after == RecordAt(harpoon_store_file', cwd, i)
                    IN  after # at =>
                            /\ MayChange(last', cwd, i, at)
                            /\ last'.op = "update" =>
                                  IsSome(after) /\ Unwrap(after).path = Unwrap(at).path
                            /\ (IsSome(at) /\ Stale(fs, cwd, Unwrap(at))) =>
                                  \/ last'.op \in {"set", "remove"} /\ last'.index = Some(i)
                                  \/ IsSome(after) /\ Unwrap(after).path = Unwrap(at).path]_vars

(* A set on another index has saved the store, and the Record whose path   *)
(* is gone from the filesystem is still in the file.                       *)
C16_Witness ==
    /\ SetOk(last) /\ IsSome(last.replaced)
    /\ \E i \in IndexValues \ {Unwrap(last.index)} :
          LET at == RecordAt(harpoon_store_file, Unwrap(last.cwd), i)
          IN  IsSome(at) /\ Stale(fs, Unwrap(last.cwd), Unwrap(at))

-----------------------------------------------------------------------------
(* The Record the store in memory holds at index i of `cwd`.               *)
Held(store, cwd, i) ==
    IF cwd \in DOMAIN store.projects THEN MapGet(store.projects[cwd].files, i) ELSE None

(* C17: two editors run set, remove and update on one backing file, each   *)
(* as open, change in memory, save, with no lock. Every save leaves the    *)
(* backing file equal to the whole store the saving editor held: its       *)
(* projects and Records and nothing of what was on disk. So a set that has *)
(* completed in one editor is gone from the file when the other editor     *)
(* opened before and saved after it, also under another working directory  *)
(* (C17_Witness).                                                          *)
C17_LastSaveWins ==
    [][\A p \in Procs :
        (procs[p].pc = "opened" /\ procs'[p].pc = "idle") =>
            /\ harpoon_store_file' # None
            /\ DOMAIN Projects(harpoon_store_file') = DOMAIN procs[p].store.projects
            /\ \A cwd \in Cwds : \A i \in IndexValues :
                  RecordAt(harpoon_store_file', cwd, i) = Held(procs[p].store, cwd, i)
            /\ \A cwd \in Cwds :
                  Cardinality(DOMAIN Table(harpoon_store_file', cwd)) =
                      Cardinality({i \in IndexValues : IsSome(Held(procs[p].store, cwd, i))})]_vars

(* The lost update: editor p has completed a set, editor q, working under  *)
(* another working directory, had opened the file before p saved and has   *)
(* saved after it, and the Record p set is not in the backing file.        *)
C17_Witness ==
    \E p \in Procs : \E q \in Procs \ {p} :
        /\ procs[p].pc = "idle" /\ procs[q].pc = "idle"
        /\ procs[p].op = "set" /\ ~procs[p].latest
        /\ procs[q].latest /\ ~procs[q].fresh
        /\ procs[q].cwd # procs[p].cwd
        /\ RecordAt(harpoon_store_file, Unwrap(procs[p].cwd), Unwrap(procs[p].index)) = None

-----------------------------------------------------------------------------
(* Editors p and q are both between open and save of an update() on the    *)
(* same document under the same working directory, and the backing file is *)
(* still what both have opened: two runs of update() from the same backing *)
(* file, working directory, document path and selection.                   *)
SameRun(p, q) ==
    /\ procs[p].pc = "opened" /\ procs[q].pc = "opened"
    /\ procs[p].op = "update" /\ procs[q].op = "update"
    /\ procs[p].cwd = procs[q].cwd
    /\ procs[p].doc = procs[q].doc
    /\ procs[p].selection = procs[q].selection
    /\ procs[p].fresh /\ procs[q].fresh

(* C18: update() is deterministic when several slots of the project hold   *)
(* the path of the document: two runs of update() from the same backing    *)
(* file, working directory, document path and selection are about to save  *)
(* the same store.                                                         *)
C18_UpdateDeterministic ==
    \A p \in Procs : \A q \in Procs :
        SameRun(p, q) => save(procs[p].store) = save(procs[q].store)

-----------------------------------------------------------------------------
(* The texts list() can render: one line per index of a table, ascending.  *)
PopupTexts ==
    {[k \in 1..Len(sort_by(I)) |-> Line(sort_by(I)[k], <<"a.txt">>)] : I \in SUBSET IndexValues}

(* The text is the listing of the table of `cwd` in the backing file.      *)
ListingOf(contents, backing, cwd) ==
    /\ Len(contents) = Cardinality(DOMAIN Table(backing, cwd))
    /\ \A k \in DOMAIN Table(backing, cwd) :
          \E n \in 1..Len(contents) :
              contents[n] = [index |-> k, sep |-> ". ", path |-> Table(backing, cwd)[k].path]

(* C19: every list() on Validate that opens the store schedules exactly    *)
(* one popup job, carrying the listing of the backing file as it is at the *)
(* call; no step takes a job from the queue but the event loop running it, *)
(* and the popup then shows the text the job carries, whatever set and     *)
(* remove have done to the store since; and every scheduled job is run in  *)
(* the end.                                                                *)
C19_PopupJob ==
    /\ [][/\ (Ran(last', "list") /\ IsSome(last'.cwd)) =>
               /\ IsSome(last'.contents)
               /\ ListingOf(Unwrap(last'.contents), harpoon_store_file, Unwrap(last'.cwd))
               /\ jobs' = Append(jobs, Unwrap(last'.contents))
          /\ last'.op = "popup" =>
               /\ jobs # <<>>
               /\ last'.contents = Some(Head(jobs))
               /\ jobs' = Tail(jobs)
          /\ (last'.op # "popup" /\ ~(Ran(last', "list") /\ IsSome(last'.cwd))) =>
               jobs' = jobs]_vars
    /\ \A text \in PopupTexts :
          (Ran(last, "list") /\ last.contents = Some(text))
              ~> (last.op = "popup" /\ last.contents = Some(text))

(* The popup shows a listing of one line while the backing file holds no   *)
(* Record: remove has emptied the table since list() was called.           *)
C19_Witness ==
    /\ last.op = "popup"
    /\ IsSome(last.contents) /\ Len(Unwrap(last.contents)) = 1
    /\ harpoon_store_file # None /\ NoRecords(harpoon_store_file)

-----------------------------------------------------------------------------
(* C20: in every backing file reachable from no file by set, update,       *)
(* remove, get and list, the selections of the host having at least one    *)
(* range, every Record of every project has at least one span.             *)
C20_SpansNeverEmpty ==
    \A c \in DOMAIN Projects(harpoon_store_file) :
        \A k \in DOMAIN Projects(harpoon_store_file)[c].files :
            Len(Projects(harpoon_store_file)[c].files[k].spans) >= 1

(* update() has replaced the spans of a Record by those of a selection of  *)
(* one range, and the same project holds a Record of two spans.            *)
C20_Witness ==
    /\ Ran(last, "update") /\ IsSome(last.selection)
    /\ Len(Unwrap(last.selection).ranges) = 1
    /\ \E k \in DOMAIN Table(harpoon_store_file, Unwrap(last.cwd)) :
          Len(Table(harpoon_store_file, Unwrap(last.cwd))[k].spans) = 1
    /\ \E k \in DOMAIN Table(harpoon_store_file, Unwrap(last.cwd)) :
          Len(Table(harpoon_store_file, Unwrap(last.cwd))[k].spans) = 2

====
